---- MODULE Spec2Model ----
(***************************************************************************)
(* One-dimensional Schelling segregation model (schelling.go).             *)
(*                                                                         *)
(* The source file holds two variants of the program: the serial one       *)
(* (lines 1-301) and the later one with the -p flag (lines 303-670).       *)
(* The later variant is the one modelled; the serial variant's             *)
(* countDistinct is modelled beside it where the two differ.               *)
(*                                                                         *)
(* Four specifications share the variables:                                *)
(*   Spec       one call of executeModel: setup, the trial loop, step,     *)
(*              move, and the result record;                               *)
(*   FairSpec   Spec with fair scheduling and fair resampling draws;       *)
(*   SpecBatch  main's validation and aggregateRuns: the run loop, the     *)
(*              goroutines, the WaitGroup, the shared counter and log;     *)
(*   SpecFn     the pure functions applied to every small lattice.         *)
(***************************************************************************)
EXTENDS Integers, Sequences, FiniteSets, TLC

\* ---------------------------------------------------------------- bounds
\* Largest lattice of a trial (Spec).
MaxSize == 4
\* Largest vision radius of a trial (Spec).
MaxVision == 1
\* Largest lattice the pure functions are applied to (SpecFn).
MaxLen == 5
\* Largest number of runs of a batch (SpecBatch).
MaxRuns == 2
\* Largest number of agents main is given (SpecBatch).
MaxAgents == 2
\* Largest worker count a batch is compared against (SpecBatch).
MaxWorkers == 2

\* ------------------------------------------------------- program constants
\* the tick cap is 500*len(model)
TickFactor == 500

\* tolerance is a float64 strictly between 0 and 1; it is kept as a fraction
\* <<numerator, denominator>> and compared by cross-multiplication
Tolerances == {<<1, 2>>}

VARIABLES
    \* ---- configuration (globals set by main)
    size,        \* numAgents
    vision,      \* vision
    tolNum,      \* tolerance, numerator
    tolDen,      \* tolerance, denominator
    \* ---- one executeModel call
    pc,          \* position in executeModel / step / move
    model,       \* the caller's slice (the whole backing array)
    local,       \* move's own slice header over the same array
    idx,         \* step's / move's idx (0-based, as in the source)
    val,         \* move's val
    tries,       \* move's tries
    unhappy,     \* move's unhappy
    ticks,       \* executeModel's ticks
    nsteps,      \* number of step() invocations so far (history)
    r,           \* the modelRun record
    \* ---- main and aggregateRuns
    numRuns,     \* numRuns
    parallel,    \* parallel (-p)
    verbose,     \* verbose (-v)
    filename,    \* filename (-o), "" when not given
    writeToFile, \* writeToFile
    opc,         \* position of the main goroutine
    exitCode,    \* the argument of os.Exit, -1 while the process runs
    run,         \* aggregateRuns' loop variable
    wg,          \* the WaitGroup's counter
    successes,   \* successes
    results,     \* results, indexed from 0
    tpc,         \* per run: position of the goroutine (or inline call)
    tr,          \* per run: executeModel's r
    treg,        \* per run: the value successes++ has read
    log,         \* what has been written to w
    reported,    \* the success count printed in the summary, -1 before
    rest0,       \* the lattice without position idx, as move was called (history)
    ones0,       \* number of type-1 agents setup produced (history)
    nstores,     \* per slot of results: how often it was assigned (history)
    nexec,       \* number of executeModel calls so far (history)
    \* ---- the pure functions applied to one lattice
    fpc,         \* "in" before the functions are applied, "out" after
    fout,        \* what they returned
    fhap         \* what isHappy and isConverged returned

trialVars == <<pc, model, local, idx, val, tries, unhappy, ticks, nsteps, r, rest0,
               ones0>>
confVars == <<size, vision, tolNum, tolDen>>
flagVars == <<numRuns, parallel, verbose, filename>>
batchVars == <<writeToFile, opc, exitCode, run, wg, successes, results, tpc, tr,
               treg, log, reported, nstores, nexec>>
fnVars == <<fpc, fout, fhap>>
vars == <<confVars, trialVars, flagVars, batchVars, fnVars>>

\* ---------------------------------------------------------------- lattices
Lattices(n) == [1..n -> {0, 1}]

\* m[i] with the source's 0-based index
At(m, i) == m[i + 1]

\* DeleteAt that drops the agent after position i (the first one when i is
\* the last position)
DeleteAtNext(m, i) ==
    IF i + 1 < Len(m) THEN SubSeq(m, 1, i + 1) \o SubSeq(m, i + 3, Len(m))
    ELSE Tail(m)

\* append(model[:idx], model[idx+1:]...): the slice without position i
DeleteAt(m, i) == SubSeq(m, 1, i) \o SubSeq(m, i + 2, Len(m))

\* InsertAt without model[idx] = val: the appended 0 stays at position i
InsertAtZero(m, i, v) == SubSeq(m, 1, i) \o <<0>> \o SubSeq(m, i + 1, Len(m))

\* InsertAt without the append that grows the slice: the value overwrites
\* position i
InsertAtOverwrite(m, i, v) == [k \in 1..Len(m) |-> IF k = i + 1 THEN v ELSE m[k]]

\* append(model, 0); copy(model[idx+1:], model[idx:]); model[idx] = val
InsertAt(m, i, v) == SubSeq(m, 1, i) \o <<v>> \o SubSeq(m, i + 1, Len(m))

\* math.Mod: the remainder has the sign of the dividend
GoMod(a, b) == IF a >= 0 THEN a % b ELSE 0 - ((0 - a) % b)

\* y := int(math.Mod(float64(i), float64(len(model)))); if y < 0 { y += len(model) }
WrapIndex(i, n) == IF GoMod(i, n) < 0 THEN GoMod(i, n) + n ELSE GoMod(i, n)

\* the loop of isHappy: count of type-1 agents among the 2*vision neighbours
RECURSIVE NeighbourCount(_, _, _)
NeighbourCount(m, i, x) ==
    IF x > vision THEN 0
    ELSE At(m, WrapIndex(i - x, Len(m))) + At(m, WrapIndex(i + x, Len(m)))
         + NeighbourCount(m, i, x + 1)

\* SameCount without the inversion for agents of type zero
SameCountNoInvert(m, i) == NeighbourCount(m, i, 1)

\* count after the inversion for agents of type zero
SameCount(m, i) ==
    IF At(m, i) = 0 THEN 2 * vision - NeighbourCount(m, i, 1)
    ELSE NeighbourCount(m, i, 1)

\* neighbors := count / (2*vision); return !(neighbors < tolerance)
isHappy(m, i) == ~(SameCount(m, i) * tolDen < tolNum * (2 * vision))

isConverged(m) == \A i \in 0..(Len(m) - 1) : isHappy(m, i)

\* CountChanges with val never updated
RECURSIVE CountChangesFixedVal(_, _, _, _)
CountChangesFixedVal(m, k, v, x) ==
    IF k > Len(m) THEN x
    ELSE IF v # m[k] THEN CountChangesFixedVal(m, k + 1, v, x + 1)
         ELSE CountChangesFixedVal(m, k + 1, v, x)

\* the range loop of countDistinct: val follows the last element seen,
\* x counts the changes
RECURSIVE CountChanges(_, _, _, _)
CountChanges(m, k, v, x) ==
    IF k > Len(m) THEN x
    ELSE IF v # m[k] THEN CountChanges(m, k + 1, m[k], x + 1)
         ELSE CountChanges(m, k + 1, v, x)

\* countDistinct without the wrap-around test
countDistinctNoWrap(m) == CountChanges(m, 1, m[1], 0)

\* countDistinct of the later variant: x++ when first and last differ
countDistinct(m) ==
    IF m[1] # m[Len(m)] THEN CountChanges(m, 1, m[1], 0) + 1
    ELSE CountChanges(m, 1, m[1], 0)

\* countDistinct of the serial variant: x-- when first and last are equal
countDistinctSerial(m) ==
    IF m[1] = m[Len(m)] THEN CountChanges(m, 1, m[1], 0) - 1
    ELSE CountChanges(m, 1, m[1], 0)

\* ------------------------------------------------------ Spec: executeModel
NoRun == [initGroups |-> -1, finalGroups |-> -1, ticks |-> -1]

NoOut == [later |-> -1, serial |-> -1]

NoHap == [happy |-> FALSE, relabeled |-> FALSE,
          converged |-> FALSE, convergedRelabeled |-> FALSE]

\* the pure functions are not being applied (Spec, SpecBatch)
FnOff == fpc = "off" /\ fout = NoOut /\ fhap = NoHap

\* m with position i left out, the other agents in their order
Without(m, i) == [k \in 1..(Len(m) - 1) |-> IF k <= i THEN m[k] ELSE m[k + 1]]

\* number of type-1 agents of m
Ones(m) == Cardinality({k \in 1..Len(m) : m[k] = 1})

\* main and aggregateRuns are not running (Spec, SpecFn)
BatchOff ==
    /\ numRuns = 0 /\ parallel = FALSE /\ verbose = FALSE /\ filename = ""
    /\ writeToFile = FALSE /\ opc = "off" /\ exitCode = -1 /\ run = 0 /\ wg = 0
    /\ successes = 0 /\ results = <<>> /\ tpc = <<>> /\ tr = <<>> /\ treg = <<>>
    /\ log = <<>> /\ reported = -1 /\ nstores = <<>> /\ nexec = 0

\* no executeModel call is being traced (SpecBatch)
TrialOff ==
    /\ pc = "off" /\ model = <<>> /\ local = <<>> /\ idx = 0 /\ val = 0
    /\ tries = 0 /\ unhappy = FALSE /\ ticks = 0 /\ nsteps = 0 /\ r = NoRun
    /\ rest0 = <<>> /\ ones0 = 0

\* main accepts: numAgents > 0, vision > 0, 0 < tolerance < 1, and not
\* vision > numAgents
Init ==
    /\ size \in 1..MaxSize
    /\ vision \in 1..MaxVision
    /\ ~(vision > size)
    /\ \E t \in Tolerances : tolNum = t[1] /\ tolDen = t[2]
    /\ pc = "setup"
    /\ model = <<>>
    /\ local = <<>>
    /\ idx = 0
    /\ val = 0
    /\ tries = 0
    /\ unhappy = FALSE
    /\ ticks = 0
    /\ nsteps = 0
    /\ r = NoRun
    /\ rest0 = <<>>
    /\ ones0 = 0
    /\ BatchOff
    /\ FnOff

\* model := setup(size); r := modelRun{..., initGroups: countDistinct(model),
\* finalGroups: -1, ticks: -1}; ticks := 0
Setup ==
    /\ pc = "setup"
    /\ \E m \in Lattices(size) :
          /\ model' = m
          /\ r' = [initGroups |-> countDistinct(m), finalGroups |-> -1, ticks |-> -1]
    /\ ticks' = 0
    /\ ones0' = Ones(model')
    /\ pc' = "loop"
    /\ UNCHANGED <<confVars, fnVars, flagVars, batchVars, rest0, local, idx, val, tries, unhappy, nsteps>>

\* LoopTest as a loop that tests after the body: the first step is taken
\* without a test
LoopTestAfterBody ==
    /\ pc = "loop"
    /\ pc' = IF isConverged(model) /\ ticks > 0 THEN "finish" ELSE "step"
    /\ UNCHANGED <<confVars, fnVars, flagVars, batchVars, rest0, ones0, model, local, idx, val, tries, unhappy, ticks, nsteps, r>>

\* for !isConverged(model) { ... }
LoopTest ==
    /\ pc = "loop"
    /\ pc' = IF isConverged(model) THEN "finish" ELSE "step"
    /\ UNCHANGED <<confVars, fnVars, flagVars, batchVars, rest0, ones0, model, local, idx, val, tries, unhappy, ticks, nsteps, r>>

\* step(model): idx := rand.Intn(len(model))
StepDraw ==
    /\ pc = "step"
    /\ \E i \in 0..(Len(model) - 1) : idx' = i
    /\ nsteps' = nsteps + 1
    /\ pc' = "resample"
    /\ UNCHANGED <<confVars, fnVars, flagVars, batchVars, rest0, ones0, model, local, val, tries, unhappy, ticks, r>>

\* for isHappy(model, idx) { idx = rand.Intn(len(model)) }
Resample ==
    /\ pc = "resample"
    /\ isHappy(model, idx)
    /\ \E i \in 0..(Len(model) - 1) : idx' = i
    /\ UNCHANGED <<confVars, fnVars, flagVars, batchVars, rest0, ones0, pc, model, local, val, tries, unhappy, ticks, nsteps, r>>

\* move(model, idx): tries := 0; unhappy := true
CallMove ==
    /\ pc = "resample"
    /\ ~isHappy(model, idx)
    /\ local' = model
    /\ tries' = 0
    /\ unhappy' = TRUE
    /\ rest0' = Without(model, idx)
    /\ pc' = "move"
    /\ UNCHANGED <<confVars, fnVars, flagVars, batchVars, ones0, model, idx, val, ticks, nsteps, r>>

\* the array as the caller sees it: move's slice, then what the array
\* still holds beyond it
ArrayView(l, m) == l \o SubSeq(m, Len(l) + 1, Len(m))

\* MoveRemove with the retry cap tested as tries <= 2*len(model)
MoveRemoveOffByOne ==
    /\ pc = "move"
    /\ unhappy /\ tries <= 2 * Len(local)
    /\ val' = At(local, idx)
    /\ local' = DeleteAt(local, idx)
    /\ model' = ArrayView(local', model)
    /\ pc' = "insert"
    /\ UNCHANGED <<confVars, fnVars, flagVars, batchVars, rest0, ones0, idx, tries, unhappy, ticks, nsteps, r>>

\* val := model[idx]; model = append(model[:idx], model[idx+1:]...)
MoveRemove ==
    /\ pc = "move"
    /\ unhappy /\ tries < 2 * Len(local)
    /\ val' = At(local, idx)
    /\ local' = DeleteAt(local, idx)
    /\ model' = ArrayView(local', model)
    /\ pc' = "insert"
    /\ UNCHANGED <<confVars, fnVars, flagVars, batchVars, rest0, ones0, idx, tries, unhappy, ticks, nsteps, r>>

\* MoveInsert without tries++
MoveInsertNoCount ==
    /\ pc = "insert"
    /\ \E j \in 0..(Len(local) - 1) :
          /\ idx' = j
          /\ local' = InsertAt(local, j, val)
          /\ model' = ArrayView(local', model)
          /\ unhappy' = ~isHappy(local', j)
    /\ pc' = "move"
    /\ UNCHANGED <<confVars, fnVars, flagVars, batchVars, rest0, ones0, val, tries, ticks, nsteps, r>>

\* idx = rand.Intn(len(model)); model = append(model, 0);
\* copy(model[idx+1:], model[idx:]); model[idx] = val;
\* tries++; unhappy = !isHappy(model, idx)
MoveInsert ==
    /\ pc = "insert"
    /\ \E j \in 0..(Len(local) - 1) :
          /\ idx' = j
          /\ local' = InsertAt(local, j, val)
          /\ model' = ArrayView(local', model)
          /\ unhappy' = ~isHappy(local', j)
    /\ tries' = tries + 1
    /\ pc' = "move"
    /\ UNCHANGED <<confVars, fnVars, flagVars, batchVars, rest0, ones0, val, ticks, nsteps, r>>

\* MoveReturn with the cap compared one tick late
MoveReturnLateCap ==
    /\ pc = "move"
    /\ ~(unhappy /\ tries < 2 * Len(local))
    /\ ticks' = ticks + 1
    /\ pc' = IF ticks' > TickFactor * Len(model) + 1 THEN "finish" ELSE "loop"
    /\ local' = <<>> /\ idx' = 0 /\ val' = 0 /\ tries' = 0 /\ unhappy' = FALSE
    /\ rest0' = <<>>
    /\ UNCHANGED <<confVars, fnVars, flagVars, batchVars, ones0, model, nsteps, r>>

\* move and step return (their locals go out of scope); ticks++;
\* if ticks > 500*len(model) { break }
MoveReturn ==
    /\ pc = "move"
    /\ ~(unhappy /\ tries < 2 * Len(local))
    /\ ticks' = ticks + 1
    /\ pc' = IF ticks' > TickFactor * Len(model) THEN "finish" ELSE "loop"
    /\ local' = <<>> /\ idx' = 0 /\ val' = 0 /\ tries' = 0 /\ unhappy' = FALSE
    /\ rest0' = <<>>
    /\ UNCHANGED <<confVars, fnVars, flagVars, batchVars, ones0, model, nsteps, r>>

\* Finish with success taken from the tick cap instead of isConverged
FinishByCap ==
    /\ pc = "finish"
    /\ r' = IF ticks <= TickFactor * Len(model)
            THEN [r EXCEPT !.finalGroups = countDistinct(model), !.ticks = ticks]
            ELSE r
    /\ pc' = "done"
    /\ UNCHANGED <<confVars, fnVars, flagVars, batchVars, rest0, ones0, model, local, idx, val, tries, unhappy, ticks, nsteps>>

\* Finish that stores finalGroups whether or not the trial succeeded
FinishAlwaysGroups ==
    /\ pc = "finish"
    /\ r' = IF isConverged(model)
            THEN [r EXCEPT !.finalGroups = countDistinct(model), !.ticks = ticks]
            ELSE [r EXCEPT !.finalGroups = countDistinct(model)]
    /\ pc' = "done"
    /\ UNCHANGED <<confVars, fnVars, flagVars, batchVars, rest0, ones0, model, local, idx, val, tries, unhappy, ticks, nsteps>>

\* success := isConverged(model); if success { r.finalGroups =
\* countDistinct(model); r.ticks = ticks }
Finish ==
    /\ pc = "finish"
    /\ r' = IF isConverged(model)
            THEN [r EXCEPT !.finalGroups = countDistinct(model), !.ticks = ticks]
            ELSE r
    /\ pc' = "done"
    /\ UNCHANGED <<confVars, fnVars, flagVars, batchVars, rest0, ones0, model, local, idx, val, tries, unhappy, ticks, nsteps>>

Next ==
    \/ Setup
    \/ LoopTest
    \/ StepDraw
    \/ Resample
    \/ CallMove
    \/ MoveRemove
    \/ MoveInsert
    \/ MoveReturn
    \/ Finish

Spec == Init /\ [][Next]_vars

\* The resampling of step draws every position again and again
\* (rand.Intn is fair), and the program keeps running.
ResampleTo(i) == Resample /\ idx' = i

FairSpec ==
    /\ Init /\ [][Next]_vars
    /\ WF_vars(Next)
    /\ \A i \in 0..(MaxSize - 1) : WF_vars(ResampleTo(i))

\* ------------------------------------------- SpecBatch: main, aggregateRuns
\* The trial loop itself is specification Spec; in a batch executeModel's
\* setup and loop are one step. From the lattice m that setup drew: a
\* converged m gives ticks = 0 and finalGroups = initGroups; any other m
\* ends abandoned, or converged after some steps (of which one tick and two
\* final groups stand for every such result).
TrialOutcomes(m) ==
    IF isConverged(m)
    THEN { [initGroups |-> countDistinct(m), finalGroups |-> countDistinct(m),
            ticks |-> 0, success |-> TRUE] }
    ELSE { [initGroups |-> countDistinct(m), finalGroups |-> -1,
            ticks |-> -1, success |-> FALSE],
           [initGroups |-> countDistinct(m), finalGroups |-> 2,
            ticks |-> 1, success |-> TRUE] }

\* the values -t is given: 0 (the default), 0.5, 1
FlagTolerances == {<<0, 1>>, <<1, 2>>, <<1, 1>>}

\* make(modelRuns, numRuns): zero-valued records
ZeroRun == [runNumber |-> 0, initGroups |-> 0, finalGroups |-> 0, ticks |-> 0]

Runs == 0..(numRuns - 1)

\* after flag.Parse(); writeToFile is declared without a value (false)
BatchInit ==
    /\ size \in 0..MaxAgents
    /\ vision \in 0..(MaxAgents + 1)
    /\ \E t \in FlagTolerances : tolNum = t[1] /\ tolDen = t[2]
    /\ numRuns \in 0..MaxRuns
    /\ parallel \in BOOLEAN
    /\ verbose \in BOOLEAN
    /\ filename \in {"", "out.csv"}
    /\ writeToFile = FALSE
    /\ opc = "main"
    /\ exitCode = -1
    /\ run = 0
    /\ wg = 0
    /\ successes = 0
    /\ results = <<>>
    /\ tpc = <<>>
    /\ tr = <<>>
    /\ treg = <<>>
    /\ log = <<>>
    /\ reported = -1
    /\ nstores = <<>>
    /\ nexec = 0
    /\ TrialOff
    /\ FnOff

\* ConfigRejected without the test of vision against numAgents
ConfigRejectedNoVisionTest ==
    \/ size <= 0
    \/ numRuns <= 0
    \/ vision <= 0
    \/ (tolNum <= 0 \/ tolNum >= tolDen)
    \/ (verbose /\ parallel)

\* main's input validation: the conditions that end in os.Exit(1)
ConfigRejected ==
    \/ size <= 0
    \/ numRuns <= 0
    \/ vision <= 0
    \/ (tolNum <= 0 \/ tolNum >= tolDen)
    \/ vision > size
    \/ (verbose /\ parallel)

\* main up to the call of aggregateRuns
Main ==
    /\ opc = "main"
    /\ IF ConfigRejected
       THEN /\ opc' = "exit"
            /\ exitCode' = 1
            /\ UNCHANGED writeToFile
       ELSE /\ opc' = "setup"
            /\ writeToFile' = IF filename = "" THEN FALSE ELSE writeToFile
            /\ UNCHANGED exitCode
    /\ UNCHANGED <<confVars, fnVars, trialVars, flagVars, nstores, nexec, run, wg, successes, results,
                   tpc, tr, treg, log, reported>>

\* aggregateRuns: the measurement variables, the WaitGroup, the file header
AggSetup ==
    /\ opc = "setup"
    /\ successes' = 0
    /\ results' = [x \in Runs |-> ZeroRun]
    /\ tpc' = [x \in Runs |-> "none"]
    /\ tr' = [x \in Runs |-> [r |-> ZeroRun, success |-> FALSE]]
    /\ treg' = [x \in Runs |-> 0]
    /\ wg' = 0
    /\ log' = IF writeToFile THEN <<"header">> ELSE <<>>
    /\ run' = 0
    /\ nstores' = [x \in Runs |-> 0]
    /\ nexec' = 0
    /\ opc' = "loop"
    /\ UNCHANGED <<confVars, fnVars, trialVars, flagVars, writeToFile, exitCode, reported>>

\* parallel: wg.Add(1); go func(x, y int) {...}(run, size); run++
LoopSpawn ==
    /\ opc = "loop" /\ run < numRuns /\ parallel
    /\ wg' = wg + 1
    /\ tpc' = [tpc EXCEPT ![run] = "exec"]
    /\ run' = run + 1
    /\ UNCHANGED <<confVars, fnVars, trialVars, flagVars, nstores, nexec, writeToFile, opc, exitCode,
                   successes, results, tr, treg, log, reported>>

\* serial: results.executeModel(run, size) on the calling goroutine
LoopCall ==
    /\ opc = "loop" /\ run < numRuns /\ ~parallel
    /\ tpc' = [tpc EXCEPT ![run] = "exec"]
    /\ opc' = "call"
    /\ UNCHANGED <<confVars, fnVars, trialVars, flagVars, nstores, nexec, writeToFile, exitCode, run, wg,
                   successes, results, tr, treg, log, reported>>

\* LoopExit one run early
LoopExitEarly ==
    /\ opc = "loop" /\ ~(run + 1 < numRuns)
    /\ opc' = "wait"
    /\ UNCHANGED <<confVars, fnVars, trialVars, flagVars, nstores, nexec, writeToFile, exitCode, run, wg,
                   successes, results, tpc, tr, treg, log, reported>>

\* run < numRuns fails: the loop ends, wg.Wait() is called
LoopExit ==
    /\ opc = "loop" /\ ~(run < numRuns)
    /\ opc' = "wait"
    /\ UNCHANGED <<confVars, fnVars, trialVars, flagVars, nstores, nexec, writeToFile, exitCode, run, wg,
                   successes, results, tpc, tr, treg, log, reported>>

\* Wait that returns at once
WaitNoBarrier ==
    /\ opc = "wait"
    /\ opc' = "stats"
    /\ UNCHANGED <<confVars, fnVars, trialVars, flagVars, nstores, nexec, writeToFile, exitCode, run, wg,
                   successes, results, tpc, tr, treg, log, reported>>

\* wg.Wait() returns when the counter is zero
Wait ==
    /\ opc = "wait"
    /\ wg = 0
    /\ opc' = "stats"
    /\ UNCHANGED <<confVars, fnVars, trialVars, flagVars, nstores, nexec, writeToFile, exitCode, run, wg,
                   successes, results, tpc, tr, treg, log, reported>>

\* the statistics are filled from results and the summary prints successes
Stats ==
    /\ opc = "stats"
    /\ reported' = successes
    /\ opc' = "end"
    /\ UNCHANGED <<confVars, fnVars, trialVars, flagVars, nstores, nexec, writeToFile, exitCode, run, wg,
                   successes, results, tpc, tr, treg, log>>

\* executeModel(x, size) up to success: setup, the loop, the result record
TExec(x) ==
    /\ tpc[x] = "exec"
    /\ \E m \in Lattices(size) : \E o \in TrialOutcomes(m) :
          tr' = [tr EXCEPT ![x] =
                    [r |-> [runNumber |-> x + 1, initGroups |-> o.initGroups,
                            finalGroups |-> o.finalGroups, ticks |-> o.ticks],
                     success |-> o.success]]
    /\ nexec' = nexec + 1
    /\ tpc' = [tpc EXCEPT ![x] = "store"]
    /\ UNCHANGED <<confVars, fnVars, trialVars, flagVars, nstores, writeToFile, opc, exitCode, run,
                   wg, successes, results, treg, log, reported>>

\* Slot with the loop variable read by the goroutine instead of its copy
SlotOfLoopVariable(x) == IF run < numRuns THEN run ELSE numRuns - 1

\* executeModel's run: the copy x of the loop variable that the go statement
\* (or the serial call) passed
Slot(x) == x

\* s[run] = r; if writeToFile { w.WriteString(fmt.Sprintln(r)) }
\* (writeToFile is never true in this variant, see Main)
TStore(x) ==
    /\ tpc[x] = "store"
    /\ results' = [results EXCEPT ![Slot(x)] = tr[x].r]
    /\ nstores' = [nstores EXCEPT ![Slot(x)] = @ + 1]
    /\ log' = IF writeToFile THEN Append(log, tr[x].r.runNumber) ELSE log
    /\ tpc' = [tpc EXCEPT ![x] = "ret"]
    /\ UNCHANGED <<confVars, fnVars, trialVars, flagVars, nexec, writeToFile, opc, exitCode, run,
                   wg, successes, tr, treg, reported>>

\* return success; if results.executeModel(x, y) { ... }
TReturn(x) ==
    /\ tpc[x] = "ret"
    /\ tpc' = [tpc EXCEPT ![x] = IF tr[x].success THEN "inc" ELSE "exit"]
    /\ UNCHANGED <<confVars, fnVars, trialVars, flagVars, nstores, nexec, writeToFile, opc, exitCode, run,
                   wg, successes, results, tr, treg, log, reported>>

\* successes++ is a load, an add and a store of an unguarded variable
TIncRead(x) ==
    /\ tpc[x] = "inc"
    /\ treg' = [treg EXCEPT ![x] = successes]
    /\ tpc' = [tpc EXCEPT ![x] = "incw"]
    /\ UNCHANGED <<confVars, fnVars, trialVars, flagVars, nstores, nexec, writeToFile, opc, exitCode, run,
                   wg, successes, results, tr, log, reported>>

TIncWrite(x) ==
    /\ tpc[x] = "incw"
    /\ successes' = treg[x] + 1
    /\ tpc' = [tpc EXCEPT ![x] = "exit"]
    /\ UNCHANGED <<confVars, fnVars, trialVars, flagVars, nstores, nexec, writeToFile, opc, exitCode, run,
                   wg, results, tr, treg, log, reported>>

\* parallel: the deferred wg.Done(); serial: back in the loop, run++
TDone(x) ==
    /\ tpc[x] = "exit"
    /\ tpc' = [tpc EXCEPT ![x] = "done"]
    /\ IF parallel
       THEN wg' = wg - 1 /\ UNCHANGED <<opc, run>>
       ELSE opc' = "loop" /\ run' = run + 1 /\ UNCHANGED wg
    /\ UNCHANGED <<confVars, fnVars, trialVars, flagVars, nstores, nexec, writeToFile, exitCode,
                   successes, results, tr, treg, log, reported>>

BatchNext ==
    \/ Main
    \/ AggSetup
    \/ LoopSpawn
    \/ LoopCall
    \/ LoopExit
    \/ Wait
    \/ Stats
    \/ \E x \in DOMAIN tpc : TExec(x)
    \/ \E x \in DOMAIN tpc : TStore(x)
    \/ \E x \in DOMAIN tpc : TReturn(x)
    \/ \E x \in DOMAIN tpc : TIncRead(x)
    \/ \E x \in DOMAIN tpc : TIncWrite(x)
    \/ \E x \in DOMAIN tpc : TDone(x)

SpecBatch == BatchInit /\ [][BatchNext]_vars

\* ------------------------------------------------ SpecFn: pure functions
\* the tolerances the pure functions are applied with: 0.25, 0.5, 0.75
FnTolerances == {<<1, 4>>, <<1, 2>>, <<3, 4>>}

\* every lattice of 1..MaxLen agents, every vision main accepts for it,
\* every position
FnInit ==
    /\ size \in 1..MaxLen
    /\ model \in Lattices(size)
    /\ vision \in 1..size
    /\ \E t \in FnTolerances : tolNum = t[1] /\ tolDen = t[2]
    /\ idx \in 0..(size - 1)
    /\ fpc = "in"
    /\ fout = NoOut
    /\ fhap = NoHap
    /\ pc = "off" /\ local = <<>> /\ val = 0 /\ tries = 0
    /\ unhappy = FALSE /\ ticks = 0 /\ nsteps = 0 /\ r = NoRun
    /\ rest0 = <<>> /\ ones0 = 0
    /\ BatchOff

\* countDistinct(model), in both variants
FnCountDistinct ==
    /\ fpc = "in"
    /\ fout' = [later |-> countDistinct(model), serial |-> countDistinctSerial(model)]
    /\ fpc' = "out"
    /\ UNCHANGED <<confVars, trialVars, flagVars, batchVars, fhap>>

\* the lattice with every 0 replaced by 1 and every 1 by 0
Relabel(m) == [k \in 1..Len(m) |-> 1 - m[k]]

\* isHappy(model, idx) and isConverged(model), on the lattice and on the
\* relabeled lattice
FnIsHappy ==
    /\ fpc = "in"
    /\ fhap' = [happy |-> isHappy(model, idx),
                relabeled |-> isHappy(Relabel(model), idx),
                converged |-> isConverged(model),
                convergedRelabeled |-> isConverged(Relabel(model))]
    /\ fpc' = "happy"
    /\ UNCHANGED <<confVars, trialVars, flagVars, batchVars, fout>>

FnNext ==
    \/ FnCountDistinct
    \/ FnIsHappy

SpecFn == FnInit /\ [][FnNext]_vars

\* ------------------------------------------------------------------ claims
TickCap == TickFactor * size

\* C3: a finished trial has ticks = -1 exactly when its step counter exceeded
\* 500*size and the lattice at loop exit still has an unhappy position;
\* otherwise ticks is the number of step() invocations performed.
C3_TicksSentinel ==
    pc = "done" =>
        /\ (r.ticks = -1) <=> (ticks > TickCap /\ ~isConverged(model))
        /\ (r.ticks # -1 => r.ticks = nsteps)

C3_Witness == pc = "done" /\ r.ticks = -1 /\ ticks > TickCap /\ nsteps = ticks

\* C4 as stated: once the tick counter exceeds 500*size the trial is
\* abandoned: ticks = -1 and finalGroups = -1 in its result.
C4_AbandonedPastCap ==
    pc = "done" /\ ticks > TickCap => r.ticks = -1 /\ r.finalGroups = -1

\* C4 amended: a trial whose tick counter exceeds 500*size while the lattice
\* still has an unhappy position is abandoned (ticks = -1, finalGroups = -1);
\* a result with ticks # -1 has ticks <= 500*size + 1.
C4_AbandonedUnlessConverged ==
    pc = "done" =>
        /\ (ticks > TickCap /\ ~isConverged(model)
               => r.ticks = -1 /\ r.finalGroups = -1)
        /\ r.ticks <= TickCap + 1

C4_Witness == pc = "done" /\ ticks = TickCap + 1 /\ r.ticks = TickCap + 1

\* C5: move keeps the lattice length: after every remove-then-reinsert
\* attempt, and when move has returned, the slice has length size again
\* (it is one shorter only between the remove and the reinsert), so every
\* state in which isHappy, isConverged or countDistinct is evaluated has a
\* lattice of length size.
C5_LengthKept ==
    /\ pc \in {"loop", "step", "resample", "move", "finish", "done"}
          => Len(model) = size
    /\ pc = "move" => Len(local) = size
    /\ pc = "insert" => Len(local) = size - 1 /\ Len(model) = size

C5_Witness == pc = "move" /\ tries >= 2 /\ Len(local) = size

\* C6: under fair resampling every trial terminates with its result.
C6_Terminates == <>(pc = "done")

C6_Witness == pc = "done" /\ nsteps > 0

\* C1: when a batch has finished, the reported success count is the number
\* of results with ticks # -1, whatever the interleaving of the trials.
C1_SuccessCount ==
    opc = "end" => reported = Cardinality({x \in Runs : results[x].ticks # -1})

\* C2: no two trial tasks are at once in the middle of successes++ (between
\* its load and its store).
C2_Serialized ==
    \A x, y \in DOMAIN tpc : x # y => ~(tpc[x] = "incw" /\ tpc[y] = "incw")

\* C7: while the statistics are computed, and after, every trial task has
\* completed and its result is stored.
C7_StatsAfterAll ==
    opc \in {"stats", "end"} =>
        \A x \in Runs : tpc[x] = "done" /\ results[x] = tr[x].r

C7_Witness == opc = "stats" /\ parallel /\ numRuns >= 2

NoTrialStarted == \A x \in DOMAIN tpc : tpc[x] = "none"

\* C8 as stated: a configuration with vision >= size never starts a trial and
\* exits non-zero.
C8_RejectsVisionGeSize ==
    vision >= size =>
        /\ NoTrialStarted
        /\ opc \in {"main", "exit"}
        /\ (opc = "exit" => exitCode = 1)

\* C8 amended: a configuration with vision > size never starts a trial and
\* exits with code 1; vision = size is accepted.
C8_RejectsVisionGtSize ==
    vision > size =>
        /\ NoTrialStarted
        /\ opc \in {"main", "exit"}
        /\ (opc = "exit" => exitCode = 1)

\* rejected by the vision test and by nothing else
C8_Witness ==
    /\ opc = "exit" /\ exitCode = 1
    /\ vision > size /\ size > 0 /\ numRuns > 0
    /\ tolNum > 0 /\ tolNum < tolDen /\ ~(verbose /\ parallel)

\* the number of maximal circular runs of a constant type
CircularRuns(m) ==
    IF \A k \in 1..Len(m) : m[k] = m[1] THEN 1
    ELSE Cardinality({k \in 1..Len(m) : m[k] # m[(k % Len(m)) + 1]})

\* C9: on every lattice of size >= 2 countDistinct returns the number of
\* maximal circular runs of a constant type (1 on an all-identical lattice).
C9_CountsCircularRuns ==
    fpc = "out" /\ size >= 2 => fout.later = CircularRuns(model)

\* C10: countDistinct returns the number of positions i in 1..len-1 with
\* lattice[i] # lattice[i-1], plus 1 if lattice[0] # lattice[len-1].
C10_InnerChangesPlusWrap ==
    fpc = "out" =>
        fout.later = Cardinality({k \in 2..Len(model) : model[k] # model[k - 1]})
                     + (IF model[1] # model[Len(model)] THEN 1 ELSE 0)

C10_Witness ==
    fpc = "out" /\ model[1] # model[Len(model)] /\ fout.later = 4

\* C11: isHappy gives the same answer on a lattice and on the lattice with
\* the two types swapped, for every position, vision and tolerance; and so
\* does isConverged.
C11_RelabelInvariant ==
    fpc = "happy" =>
        /\ fhap.happy = fhap.relabeled
        /\ fhap.converged = fhap.convergedRelabeled

\* a happy agent of type 0 with neighbours of both types
C11_Witness ==
    /\ fpc = "happy" /\ fhap.happy /\ At(model, idx) = 0
    /\ NeighbourCount(model, idx, 1) > 0
    /\ NeighbourCount(model, idx, 1) < 2 * vision

\* C19: on every lattice the serial variant of countDistinct returns one
\* less than the later variant; the later variant's result is even and
\* within 0..size, the serial variant's is odd, and -1 on an all-identical
\* lattice.
C19_VariantsDifferByOne ==
    fpc = "out" =>
        /\ fout.serial = fout.later - 1
        /\ fout.later % 2 = 0
        /\ fout.later \in 0..size
        /\ fout.serial % 2 = 1
        /\ ((\A k \in 1..Len(model) : model[k] = model[1]) => fout.serial = -1)

C19_Witness ==
    /\ fpc = "out" /\ size >= 3 /\ fout.serial = 1 /\ fout.later = 2
    /\ model[1] = model[Len(model)]

\* C12: every trial assigns its result exactly once, to its own slot
\* (index run, runNumber = run + 1); no slot is assigned twice, by another
\* trial or after its trial has finished; serial and parallel alike.
C12_OneStorePerSlot ==
    \A x \in DOMAIN tpc :
        /\ nstores[x] <= 1
        /\ (nstores[x] = 1) <=> (tpc[x] \in {"ret", "inc", "incw", "exit", "done"})
        /\ (nstores[x] = 1 => results[x] = tr[x].r /\ results[x].runNumber = x + 1)
        /\ (opc = "end" => nstores[x] = 1)

C12_Witness ==
    /\ opc = "end" /\ parallel /\ numRuns >= 2
    /\ \A x \in Runs : nstores[x] = 1

\* C13: a serial batch that was given an output file ends with a log of the
\* header followed by one row per trial, in run-number order 1..numRuns.
C13_SerialLog ==
    opc = "end" /\ ~parallel /\ filename # "" =>
        log = <<"header">> \o [k \in 1..numRuns |-> k]

\* C14 as stated: a batch over w workers executes w * (numRuns div w) trials.
C14_ChunkedRuns ==
    opc = "end" => \A w \in 1..MaxWorkers : nexec = w * (numRuns \div w)

\* C14 amended: a batch executes exactly numRuns trials, one executeModel
\* call per run (one goroutine per run in parallel mode); no trial is dropped
\* and there is no worker count.
C14_AllRunsExecuted ==
    /\ nexec <= numRuns
    /\ (opc = "end" => nexec = numRuns)

\* a batch that no worker count above 1 divides evenly
C14_Witness == opc = "end" /\ parallel /\ numRuns = 1 /\ nexec = 1

\* the while condition of move fails: move returns
MoveDone == pc = "move" /\ ~(unhappy /\ tries < 2 * Len(local))

\* C15: a call of move makes at least 1 and at most 2*length attempts, makes
\* another attempt only while every attempt so far left the agent unhappy,
\* and returns with the agent happy at its position or after exactly
\* 2*length attempts.
C15_AttemptsBounded ==
    /\ (pc \in {"move", "insert"} => tries <= 2 * size)
    /\ (pc = "insert" => unhappy /\ tries < 2 * size)
    /\ (pc = "move" /\ tries >= 1 => (unhappy <=> ~isHappy(local, idx)))
    /\ (MoveDone => tries >= 1 /\ (isHappy(local, idx) \/ tries = 2 * size))

C15_Witness == MoveDone /\ tries = 2 * size /\ ~isHappy(local, idx)

\* C16: whatever the number of attempts, the lattice without the moved agent
\* is the lattice without position idx as it was when move was called: same
\* values, same order, in move's slice and in the caller's view of the array.
C16_OthersKeepOrder ==
    /\ (pc = "insert" => local = rest0)
    /\ (pc = "move" => Without(local, idx) = rest0 /\ model = local)

C16_Witness ==
    /\ MoveDone /\ tries >= 2 /\ size >= 3
    /\ \E k \in 1..Len(rest0) : rest0[k] # rest0[1]

\* C17: step runs only on a lattice with an unhappy position, and move is
\* called only on a position whose agent is unhappy at the call.
C17_StepOnUnconverged ==
    /\ (pc \in {"step", "resample"} => ~isConverged(model))
    /\ (pc = "move" /\ tries = 0 => ~isHappy(model, idx) /\ local = model)

C17_Witness == pc = "move" /\ tries = 0 /\ nsteps >= 2

\* C18: between relocation attempts every cell holds 0 or 1 and the number of
\* type-1 agents is the number setup produced (so is the number of type-0
\* agents, the length being size); during an attempt the removed agent
\* makes up the difference.
C18_PopulationConserved ==
    /\ (pc \in {"loop", "step", "resample", "move", "finish", "done"} =>
            /\ model \in Lattices(size)
            /\ Ones(model) = ones0)
    /\ (pc = "move" => local \in Lattices(size) /\ Ones(local) = ones0)
    /\ (pc = "insert" => val \in {0, 1} /\ Ones(local) + val = ones0)

C18_Witness ==
    /\ pc = "done" /\ nsteps >= 2 /\ ones0 \in 1..(size - 1)

\* C20: a trial whose setup lattice is converged takes no step, leaves the
\* lattice unchanged and ends with ticks = 0 and finalGroups = initGroups;
\* every result has ticks = -1 exactly when finalGroups = -1, and otherwise
\* finalGroups is countDistinct of a lattice whose every position is happy.
C20_ConvergedAtStart ==
    /\ [](pc = "loop" /\ nsteps = 0 => ticks = 0 /\ r.initGroups = countDistinct(model))
    /\ [](pc = "finish" /\ nsteps = 0 =>
             ticks = 0 /\ isConverged(model) /\ r.initGroups = countDistinct(model))
    /\ [][pc = "loop" /\ nsteps = 0 /\ isConverged(model) =>
             pc' = "finish" /\ nsteps' = 0 /\ model' = model]_vars
    /\ [][pc = "finish" /\ nsteps = 0 =>
             /\ pc' = "done" /\ nsteps' = 0 /\ model' = model
             /\ r'.ticks = 0 /\ r'.finalGroups = r.initGroups]_vars
    /\ [](pc = "done" =>
             /\ (r.ticks = -1 <=> r.finalGroups = -1)
             /\ (r.ticks # -1 => isConverged(model) /\ r.finalGroups = countDistinct(model))
             /\ (nsteps = 0 => r.ticks = 0 /\ r.finalGroups = r.initGroups))

C20_Witness ==
    /\ pc = "done" /\ nsteps = 0 /\ size >= 3
    /\ r.ticks = 0 /\ r.finalGroups = r.initGroups /\ r.finalGroups = 2

====
